---- MODULE Spec2Model ----
(***************************************************************************)
(* A model of flodgatt's Redis connection manager, RedisConn               *)
(* (src/src/response/redis/connection.rs): construction with the handshake *)
(* of the primary and the secondary connection, the non-blocking           *)
(* poll_redis and send_cmd.                                                *)
(*                                                                         *)
(* Bytes are numbers (ASCII codes); a string is a sequence of them.        *)
(* Sizes are counted in units of Page bytes, where Page stands for the     *)
(* 4096 of the source: the input buffer starts at Page * 4 and BLOCK is    *)
(* Page * 2, as in the source.                                             *)
(***************************************************************************)
EXTENDS Integers, Sequences, FiniteSets, TLC

VARIABLES
    cfg,            \* redis_cfg: [password, namespace] (host and port give Addr)
    pc,             \* where RedisConn::new is, then "ready", "failed" or "panicked"
    cur,            \* the connection new_connection is working on
    conn,           \* the two TcpStreams: primary and secondary
    newResult,      \* what RedisConn::new returned, and at which step: [status, err, at]
    namespace,      \* RedisConn.namespace
    tag_name_cache, \* RedisConn.tag_name_cache, most recently used first
    input,          \* RedisConn.input
    hs,             \* the last handshake reply read: [step, buffer, consumed, timeout]
    poll,           \* the last poll_redis call: its offset, read and result
    send,           \* the last send_cmd call: its arguments, names and result
    stream          \* the caller's and the backend's accounts of the primary stream:
                    \* bytes published and consumed, the sum of the reported counts,
                    \* the last offset plus the last count (limit), and whether every
                    \* offset was that sum (in_order) or at most that limit (bounded)

vars == <<cfg, pc, cur, conn, newResult, namespace, tag_name_cache, input,
          hs, poll, send, stream>>

None == "None"

----------------------------------------------------------------------------
(* Bounds of the model *)

\* the unit of the buffer sizes: stands for the 4096 of the source
Page == 1
\* bytes the backend publishes on the primary connection in one run
MaxBytes == 3
\* polls of one run whose offset is not the sum of the counts reported so far
MaxStray == 1
\* send_cmd calls in one run
MaxSends == 2

----------------------------------------------------------------------------
(* Strings of the wire protocol, as ASCII bytes *)

\* "+PONG\r\n"
PONG == <<43, 80, 79, 78, 71, 13, 10>>
\* "+OK\r\n"
OK == <<43, 79, 75, 13, 10>>
\* "-NOAUTH"
NOAUTH == <<45, 78, 79, 65, 85, 84, 72>>
\* "HTTP/1."
HTTP1 == <<72, 84, 84, 80, 47, 49, 46>>

\* the address RedisConn::new builds from host and port
Addr == "127.0.0.1:6379"

\* str::starts_with
StartsWith(s, prefix) ==
    /\ Len(prefix) <= Len(s)
    /\ SubSeq(s, 1, Len(prefix)) = prefix

\* String::from_utf8_lossy on bytes that are ASCII or no part of any UTF-8
\* sequence (0xFF): the former are kept, the latter become U+FFFD
FromUtf8Lossy(bytes) ==
    [k \in 1..Len(bytes) |-> IF bytes[k] < 128 THEN bytes[k] ELSE 65533]

\* vec![0_u8; n]
Zeros(n) == [k \in 1..n |-> 0]

\* the buffer after a read placed `data` at its start
Filled(buffer, data) ==
    [k \in 1..Len(buffer) |-> IF k <= Len(data) THEN data[k] ELSE buffer[k]]

Min(a, b) == IF a <= b THEN a ELSE b

----------------------------------------------------------------------------
(* Errors: RedisConnErr *)

Err(kind, data) == [kind |-> kind, data |-> data]
NoErr == Err(None, None)

\* RedisConnErr::with_addr(&addr, e): the error that carries the address
WithAddr(addr) == Err("ConnectionErr", addr)

\* From<io::Error> for RedisConnErr, which `?` applies to a bare io::Error
FromIoError == Err("IoError", None)

----------------------------------------------------------------------------
(* The state before RedisConn::new *)

Conns == {"primary", "secondary"}

\* the configurations: with and without a password, with and without a namespace
Passwords == {None, "hunter2"}
Namespaces == {None, "ns"}

\* a TcpStream: `sent` is what was written to it, `rx` what the peer sent and
\* was not read yet
NoConn == [open |-> FALSE, nonblocking |-> FALSE, read_timeout |-> FALSE,
           sent |-> <<>>, rx |-> <<>>, peer_closed |-> FALSE]

NoHs == [step |-> None, buffer |-> <<>>, consumed |-> 0, timeout |-> FALSE]
NoPoll == [start |-> 0, grew |-> FALSE, len_before |-> 0, avail |-> 0,
           eof |-> FALSE, reads |-> 0, outcome |-> None, n |-> 0, blocked |-> FALSE,
           result |-> [kind |-> None, some |-> FALSE, n |-> 0]]
NoSend == [calls |-> 0, cmd |-> None, timelines |-> <<>>, ns_before |-> None,
           resolved |-> 0, encoded |-> FALSE, names |-> <<>>,
           primary |-> None, secondary |-> None, result |-> None, err |-> NoErr]
NoStream == [published |-> 0, consumed |-> <<>>, sum |-> 0, in_order |-> TRUE,
             strays |-> 0, limit |-> 0, bounded |-> TRUE]

Init ==
    /\ cfg \in [password : Passwords, namespace : Namespaces]
    /\ pc = "connect"
    /\ cur = "primary"
    /\ conn = [c \in Conns |-> NoConn]
    /\ newResult = [status |-> None, err |-> NoErr, at |-> None]
    /\ namespace = None
    /\ tag_name_cache = <<>>
    /\ input = <<>>
    /\ hs = NoHs
    /\ poll = NoPoll
    /\ send = NoSend
    /\ stream = NoStream

----------------------------------------------------------------------------
(* RedisConn::new and new_connection *)

\* replies of the backend to AUTH: "+OK\r\n", "+OK\r\n" and a byte more,
\* "-ERR x\r\n", "+OKAY", "-E" and then the end of the stream, "\xFFOK\r\n"
AuthReplies ==
    { OK, OK \o <<88>>, <<45, 69, 82, 82, 32, 120, 13, 10>>,
      <<43, 79, 75, 65, 89>>, <<45, 69>>, <<255, 79, 75, 13, 10>> }

\* replies to PING: "+PONG\r\n", "+PONG\r\nX", "+PO", "-NOAUTH x", "HTTP/1.1 400",
\* "HTTP/1.0", "HTTP/2", "-ERR", "xHTTP/1.", "\xFFPONG\r\n" and the end of the stream
PingReplies ==
    { PONG, PONG \o <<88>>, <<43, 80, 79>>, NOAUTH \o <<32, 120>>,
      HTTP1 \o <<49, 32, 52, 48, 48>>, HTTP1 \o <<48>>, <<72, 84, 84, 80, 47, 50>>,
      <<45, 69, 82, 82>>, <<120>> \o HTTP1, <<255>> \o Tail(PONG), <<>> }

\* replies to CLIENT SETNAME: "+OK\r\n", "+OK\r\nX", "-ERR", "+OK" and the end of
\* the stream
SetNameReplies == { OK, OK \o <<88>>, <<45, 69, 82, 82>>, <<43, 79, 75>>, <<>> }

\* the buffer of auth_connection: vec![0_u8; 5]
AuthBufLen == 5
\* the buffer of validate_connection and set_connection_name: vec![0_u8; 100]
ReplyBufLen == 100

\* the commands of the handshake, as written
AuthCmd(pass) == <<"auth", pass>>
PingCmd == <<"PING">>
SetNameCmd == <<"CLIENT", "SETNAME", "flodgatt">>

\* an early return that closes only the connection being set up
AbortLeaking(cn, e) ==
    /\ conn' = [cn EXCEPT ![cur].open = FALSE]
    /\ pc' = "failed"
    /\ newResult' = [status |-> "Err", err |-> e, at |-> pc]

\* an early return of RedisConn::new with Err(e): every TcpStream it opened is
\* dropped, which closes it
Abort(cn, e) ==
    /\ conn' = [c \in Conns |-> [cn[c] EXCEPT !.open = FALSE]]
    /\ pc' = "failed"
    /\ newResult' = [status |-> "Err", err |-> e, at |-> pc]

\* TcpStream::connect(&addr)?
Connect ==
    /\ pc = "connect"
    /\ \E ok \in BOOLEAN :
        IF ok
        THEN /\ conn' = [conn EXCEPT ![cur] = [NoConn EXCEPT !.open = TRUE]]
             /\ pc' = IF cfg.password # None THEN "auth" ELSE "ping"
             /\ UNCHANGED newResult
        ELSE Abort(conn, FromIoError)
    /\ UNCHANGED <<cfg, cur, namespace, tag_name_cache, input, hs, poll, send, stream>>

\* a check that accepts every reply that begins with "+OK"
AuthOutcomePrefix(buffer, pass) ==
    IF ~StartsWith(FromUtf8Lossy(buffer), SubSeq(OK, 1, 3))
    THEN Err("IncorrectPassword", pass)
    ELSE NoErr

\* the check of auth_connection on the five bytes read: the error, NoErr for Ok
AuthOutcome(buffer, pass) ==
    IF FromUtf8Lossy(buffer) # OK THEN Err("IncorrectPassword", pass) ELSE NoErr

\* auth_connection(conn, addr, pass)
AuthConnection ==
    /\ pc = "auth"
    /\ \E wrote \in BOOLEAN, reply \in AuthReplies, read \in BOOLEAN :
        LET pass == cfg.password
            c0 == conn[cur]
            rx1 == c0.rx \o reply
            c1 == [c0 EXCEPT !.sent = Append(@, AuthCmd(pass))]
            buffer == SubSeq(rx1, 1, AuthBufLen)
            c2 == [c1 EXCEPT !.rx = SubSeq(rx1, AuthBufLen + 1, Len(rx1))]
        IN  IF ~wrote
            THEN Abort(conn, WithAddr(Addr)) /\ UNCHANGED hs
            ELSE IF ~read \/ Len(rx1) < AuthBufLen
            THEN Abort([conn EXCEPT ![cur] = c1], WithAddr(Addr)) /\ UNCHANGED hs
            ELSE /\ hs' = [step |-> "auth", buffer |-> buffer,
                           consumed |-> Len(rx1) - Len(c2.rx),
                           timeout |-> c0.read_timeout]
                 /\ IF AuthOutcome(buffer, pass) # NoErr
                    THEN Abort([conn EXCEPT ![cur] = c2], AuthOutcome(buffer, pass))
                    ELSE /\ conn' = [conn EXCEPT ![cur] = c2]
                         /\ pc' = "ping"
                         /\ UNCHANGED newResult
    /\ UNCHANGED <<cfg, cur, namespace, tag_name_cache, input, poll, send, stream>>

\* a match that takes only "HTTP/1.1" for an HTTP reply
ClassifyPingHttp11(reply) ==
    IF StartsWith(reply, PONG) THEN "Ok"
    ELSE IF StartsWith(reply, NOAUTH) THEN "MissingPassword"
    ELSE IF StartsWith(reply, HTTP1 \o <<49>>) THEN "NotRedis"
    ELSE "InvalidRedisReply"

\* the match of validate_connection on the reply
ClassifyPing(reply) ==
    IF StartsWith(reply, PONG) THEN "Ok"
    ELSE IF StartsWith(reply, NOAUTH) THEN "MissingPassword"
    ELSE IF StartsWith(reply, HTTP1) THEN "NotRedis"
    ELSE "InvalidRedisReply"

\* the error validate_connection returns for a reply that is not "+PONG\r\n"
PingErr(reply) ==
    CASE ClassifyPing(reply) = "MissingPassword" -> Err("MissingPassword", None)
      [] ClassifyPing(reply) = "NotRedis" -> Err("NotRedis", Addr)
      [] OTHER -> Err("InvalidRedisReply", reply)

\* validate_connection(conn, addr)
ValidateConnection ==
    /\ pc = "ping"
    /\ \E wrote \in BOOLEAN, sent \in PingReplies, read \in BOOLEAN :
        LET c0 == conn[cur]
            rx1 == c0.rx \o sent
            n == Min(Len(rx1), ReplyBufLen)
            c1 == [c0 EXCEPT !.sent = Append(@, PingCmd)]
            buffer == Filled(Zeros(ReplyBufLen), SubSeq(rx1, 1, n))
            c2 == [c1 EXCEPT !.rx = SubSeq(rx1, n + 1, Len(rx1))]
            reply == FromUtf8Lossy(buffer)
        IN  IF ~wrote
            THEN Abort(conn, WithAddr(Addr)) /\ UNCHANGED hs
            ELSE IF ~read
            THEN Abort([conn EXCEPT ![cur] = c1], WithAddr(Addr)) /\ UNCHANGED hs
            ELSE /\ hs' = [step |-> "ping", buffer |-> buffer, consumed |-> n,
                           timeout |-> c0.read_timeout]
                 /\ IF ClassifyPing(reply) = "Ok"
                    THEN /\ conn' = [conn EXCEPT ![cur] = c2]
                         /\ pc' = "set_read_timeout"
                         /\ UNCHANGED newResult
                    ELSE Abort([conn EXCEPT ![cur] = c2], PingErr(reply))
    /\ UNCHANGED <<cfg, cur, namespace, tag_name_cache, input, poll, send, stream>>

\* conn.set_read_timeout(Some(Duration::from_millis(10)))
SetReadTimeout ==
    /\ pc = "set_read_timeout"
    /\ \E ok \in BOOLEAN :
        IF ok
        THEN /\ conn' = [conn EXCEPT ![cur].read_timeout = TRUE]
             /\ pc' = "set_name"
             /\ UNCHANGED newResult
        ELSE Abort(conn, WithAddr(Addr))
    /\ UNCHANGED <<cfg, cur, namespace, tag_name_cache, input, hs, poll, send, stream>>

\* vec![0; 4096 * 4]
InputInitLen == Page * 4

\* the match of set_connection_name on the reply
ClassifySetName(reply) ==
    IF StartsWith(reply, OK) THEN "Ok" ELSE "InvalidRedisReply"

\* set_connection_name(conn, addr); for the secondary connection its Ok makes
\* RedisConn::new return the manager
SetConnectionName ==
    /\ pc = "set_name"
    /\ \E wrote \in BOOLEAN, sent \in SetNameReplies, read \in BOOLEAN :
        LET c0 == conn[cur]
            rx1 == c0.rx \o sent
            n == Min(Len(rx1), ReplyBufLen)
            c1 == [c0 EXCEPT !.sent = Append(@, SetNameCmd)]
            buffer == Filled(Zeros(ReplyBufLen), SubSeq(rx1, 1, n))
            c2 == [c1 EXCEPT !.rx = SubSeq(rx1, n + 1, Len(rx1))]
            reply == FromUtf8Lossy(buffer)
        IN  IF ~wrote
            THEN /\ Abort(conn, WithAddr(Addr))
                 /\ UNCHANGED <<hs, namespace, tag_name_cache, input>>
            ELSE IF ~read
            THEN /\ Abort([conn EXCEPT ![cur] = c1], WithAddr(Addr))
                 /\ UNCHANGED <<hs, namespace, tag_name_cache, input>>
            ELSE /\ hs' = [step |-> "set_name", buffer |-> buffer, consumed |-> n,
                           timeout |-> c0.read_timeout]
                 /\ IF ClassifySetName(reply) # "Ok"
                    THEN /\ Abort([conn EXCEPT ![cur] = c2],
                                  Err("InvalidRedisReply", reply))
                         /\ UNCHANGED <<namespace, tag_name_cache, input>>
                    ELSE IF cur = "primary"
                    THEN /\ conn' = [conn EXCEPT ![cur] = c2]
                         /\ pc' = "set_nonblocking"
                         /\ UNCHANGED <<newResult, namespace, tag_name_cache, input>>
                    ELSE /\ conn' = [conn EXCEPT ![cur] = c2]
                         /\ pc' = "ready"
                         /\ newResult' = [status |-> "Ok", err |-> NoErr, at |-> pc]
                         /\ tag_name_cache' = <<>>
                         /\ namespace' = cfg.namespace
                         /\ input' = Zeros(InputInitLen)
    /\ UNCHANGED <<cfg, cur, poll, send, stream>>

\* a stream left in blocking mode
NonblockingForgotten(c) == c

\* the stream after set_nonblocking(true)
NonblockingSet(c) == [c EXCEPT !.nonblocking = TRUE]

\* a mode switch whose failure is ignored: the secondary connection is opened
\* whatever set_nonblocking returned
SetNonblockingUnchecked ==
    /\ pc = "set_nonblocking"
    /\ cur = "primary"
    /\ \E ok \in BOOLEAN :
        /\ conn' = IF ok THEN [conn EXCEPT ![cur] = NonblockingSet(@)] ELSE conn
        /\ cur' = "secondary"
        /\ pc' = "connect"
        /\ UNCHANGED newResult
    /\ UNCHANGED <<cfg, namespace, tag_name_cache, input, hs, poll, send, stream>>

\* conn.set_nonblocking(true) on the primary connection, then the secondary
\* connection's new_connection starts
SetNonblocking ==
    /\ pc = "set_nonblocking"
    /\ cur = "primary"
    /\ \E ok \in BOOLEAN :
        IF ok
        THEN /\ conn' = [conn EXCEPT ![cur] = NonblockingSet(@)]
             /\ cur' = "secondary"
             /\ pc' = "connect"
             /\ UNCHANGED newResult
        ELSE Abort(conn, WithAddr(Addr)) /\ UNCHANGED cur
    /\ UNCHANGED <<cfg, namespace, tag_name_cache, input, hs, poll, send, stream>>

New ==
    \/ Connect
    \/ AuthConnection
    \/ ValidateConnection
    \/ SetReadTimeout
    \/ SetConnectionName
    \/ SetNonblocking

SpecNew == Init /\ [][New]_vars

----------------------------------------------------------------------------
(* The backend and the peer of the primary connection *)

\* the backend publishes n more bytes on the primary connection; the k-th
\* byte it publishes has the value k
Publish ==
    /\ pc = "ready"
    /\ ~conn["primary"].peer_closed
    /\ \E n \in 1..(MaxBytes - stream.published) :
        /\ conn' = [conn EXCEPT !["primary"].rx =
                        @ \o [k \in 1..n |-> stream.published + k]]
        /\ stream' = [stream EXCEPT !.published = @ + n]
    /\ UNCHANGED <<cfg, pc, cur, newResult, namespace, tag_name_cache, input,
                   hs, poll, send>>

\* the peer closes the primary stream
PeerClose ==
    /\ pc = "ready"
    /\ ~conn["primary"].peer_closed
    /\ conn' = [conn EXCEPT !["primary"].peer_closed = TRUE]
    /\ UNCHANGED <<cfg, pc, cur, newResult, namespace, tag_name_cache, input,
                   hs, poll, send, stream>>

----------------------------------------------------------------------------
(* RedisConn::poll_redis *)

\* const BLOCK: usize = 4096 * 2
BLOCK == Page * 2

\* Async::Ready(Some(n)), Async::Ready(None) and Async::NotReady
Ready(n) == [kind |-> "Ready", some |-> TRUE, n |-> n]
ReadyNone == [kind |-> "Ready", some |-> FALSE, n |-> 0]
NotReady == [kind |-> "NotReady", some |-> FALSE, n |-> 0]
Panicked == [kind |-> "panic", some |-> FALSE, n |-> 0]

\* a growth check that adds one block instead of doubling
GrownByBlock(buf, i) ==
    IF Len(buf) < i + BLOCK THEN buf \o Zeros(BLOCK) ELSE buf

\* a growth check that leaves the block out: self.input.len() < i
GrownLate(buf, i) ==
    IF Len(buf) < i THEN buf \o Zeros(Len(buf)) ELSE buf

\* the growth check: self.input.resize(self.input.len() * 2, 0) when
\* self.input.len() < i + BLOCK (the offsets of the model are far from the
\* usize::MAX - BLOCK beyond which i + BLOCK overflows)
Grown(buf, i) ==
    IF Len(buf) < i + BLOCK THEN buf \o Zeros(Len(buf)) ELSE buf

\* TcpStream::read on a socket with `rx` unread: what it returns, given
\* whether the socket fails with an error of another kind
ReadOutcome(c, fault) ==
    IF fault THEN "Other"
    ELSE IF Len(c.rx) > 0 THEN "Ok"
    ELSE IF c.peer_closed THEN "Ok"
    ELSE "WouldBlock"

\* a match that reports a read that would block as a closed stream
PollResultClosing(outcome, n) ==
    CASE outcome = "Ok" /\ n = 0 -> ReadyNone
      [] outcome = "Ok" /\ n # 0 -> Ready(n)
      [] OTHER -> ReadyNone

\* the match of poll_redis on the result of the read
PollResult(outcome, n) ==
    CASE outcome = "Ok" /\ n = 0 -> ReadyNone
      [] outcome = "Ok" /\ n # 0 -> Ready(n)
      [] outcome = "WouldBlock" -> NotReady
      [] OTHER -> ReadyNone

\* a read that places `data` at the start of the buffer, whatever the offset
ReadIntoStart(buf, i, data) ==
    [k \in 1..Len(buf) |-> IF k <= Len(data) THEN data[k] ELSE buf[k]]

\* a read that zeroes the part of self.input[i..i + BLOCK] it does not fill
ReadIntoClearing(buf, i, data) ==
    [k \in 1..Len(buf) |->
        IF i < k /\ k <= i + Len(data) THEN data[k - i]
        ELSE IF i < k /\ k <= i + BLOCK THEN 0
        ELSE buf[k]]

\* the buffer after read() placed `data` in self.input[i..i + BLOCK]
ReadInto(buf, i, data) ==
    [k \in 1..Len(buf) |->
        IF i < k /\ k <= i + Len(data) THEN data[k - i] ELSE buf[k]]

\* the first offset that one doubling of a new buffer does not make room for
MaxOffset == 2 * InputInitLen - BLOCK + 1

\* the offsets the caller passes: the sum of the counts reported so far, or,
\* at most MaxStray times, any other
StartOffsets ==
    {stream.sum} \cup (IF stream.strays < MaxStray THEN 0..MaxOffset ELSE {})

\* poll_redis(i)
PollRedis ==
    /\ pc = "ready"
    /\ \E i \in StartOffsets, fault \in BOOLEAN :
        LET grown == Grown(input, i)
            c0 == conn["primary"]
            outcome == ReadOutcome(c0, fault)
            n == IF outcome = "Ok" THEN Min(Len(c0.rx), BLOCK) ELSE 0
            data == SubSeq(c0.rx, 1, n)
            result == PollResult(outcome, n)
            called == [NoPoll EXCEPT !.start = i, !.len_before = Len(input),
                                     !.grew = Len(grown) # Len(input),
                                     !.avail = Len(c0.rx), !.eof = c0.peer_closed]
            account == [stream EXCEPT
                           !.in_order = @ /\ i = stream.sum,
                           !.strays = IF i = stream.sum THEN @ ELSE @ + 1,
                           !.bounded = @ /\ i <= stream.limit,
                           !.limit = i]
        IN  IF Len(grown) < i + BLOCK
            THEN \* the slice self.input[i..i + BLOCK] is out of range
                 /\ pc' = "panicked"
                 /\ input' = grown
                 /\ poll' = [called EXCEPT !.result = Panicked]
                 /\ stream' = account
                 /\ UNCHANGED conn
            ELSE /\ input' = ReadInto(grown, i, data)
                 /\ conn' = [conn EXCEPT !["primary"].rx = SubSeq(@, n + 1, Len(@))]
                 /\ poll' = [called EXCEPT
                                !.reads = 1, !.outcome = outcome, !.n = n,
                                !.blocked = (outcome = "WouldBlock" /\ ~c0.nonblocking),
                                !.result = result]
                 /\ stream' = [account EXCEPT
                                  !.consumed = @ \o data,
                                  !.sum = @ + (IF result.some THEN result.n ELSE 0),
                                  !.limit = i + (IF result.some THEN result.n ELSE 0)]
                 /\ UNCHANGED pc
    /\ UNCHANGED <<cfg, cur, newResult, namespace, tag_name_cache, hs, send>>

\* the loop `for i in 0..BLOCK` of the in-memory poll_redis: pop a byte of
\* test_input into self.input[start + i], and return at the first i that
\* finds the queue empty
RECURSIVE MockLoop(_, _, _, _)
MockLoop(buf, queue, start, i) ==
    IF i = BLOCK THEN [result |-> Ready(BLOCK), input |-> buf, test_input |-> queue]
    ELSE IF queue # <<>>
         THEN IF start + i + 1 > Len(buf)
              THEN \* the index self.input[start + i] is out of range
                   [result |-> Panicked, input |-> buf, test_input |-> queue]
              ELSE MockLoop([buf EXCEPT ![start + i + 1] = Head(queue)],
                            Tail(queue), start, i + 1)
    ELSE IF i > 0 THEN [result |-> Ready(i), input |-> buf, test_input |-> queue]
    ELSE [result |-> ReadyNone, input |-> buf, test_input |-> queue]

\* mock_connection::RedisConn::poll_redis(start) on a manager whose buffer is
\* `buf` and whose test_input holds `queue`
MockPollRedis(buf, queue, start) == MockLoop(Grown(buf, start), queue, start, 0)

NextPoll == New \/ Publish \/ PeerClose \/ PollRedis

InitPoll == Init /\ cfg.namespace = None
SpecPoll == InitPoll /\ [][NextPoll]_vars

----------------------------------------------------------------------------
(* The tag name cache and the channel descriptors *)

\* LruCache::new(1000): the capacity of the cache; TagCacheCap stands for the
\* 1000 of the source, so that a cache of the model fills and overflows
TagCacheCap == 2

\* the tags and the names the surrounding system caches for them: one tag
\* more than the cache holds
TagIds == 1..(TagCacheCap + 1)
TagNames == <<"rust", "tla", "redis", "lru">>
TagName(id) == TagNames[((id - 1) % Len(TagNames)) + 1]

\* a cache is a sequence of [key, value], most recently used first
Position(cache, key) ==
    IF \E k \in 1..Len(cache) : cache[k].key = key
    THEN CHOOSE k \in 1..Len(cache) : cache[k].key = key
    ELSE 0

Without(cache, k) == SubSeq(cache, 1, k - 1) \o SubSeq(cache, k + 1, Len(cache))

\* LruCache::get: the value, None on a miss
LruGet(cache, key) ==
    IF Position(cache, key) = 0 THEN None ELSE cache[Position(cache, key)].value

\* the cache after LruCache::get: a hit makes the key the most recently used
LruTouch(cache, key) ==
    IF Position(cache, key) = 0 THEN cache
    ELSE <<cache[Position(cache, key)]>> \o Without(cache, Position(cache, key))

\* a put that drops the most recently used entry of a full cache
LruPutDroppingNewest(cache, key, value) ==
    LET entry == [key |-> key, value |-> value]
    IN  IF Position(cache, key) # 0
        THEN <<entry>> \o Without(cache, Position(cache, key))
        ELSE IF Len(cache) >= TagCacheCap
        THEN <<entry>> \o SubSeq(cache, 2, Len(cache))
        ELSE <<entry>> \o cache

\* LruCache::put
LruPut(cache, key, value) ==
    LET entry == [key |-> key, value |-> value]
    IN  IF Position(cache, key) # 0
        THEN <<entry>> \o Without(cache, Position(cache, key))
        ELSE IF Len(cache) >= TagCacheCap
        THEN <<entry>> \o SubSeq(cache, 1, Len(cache) - 1)
        ELSE <<entry>> \o cache

\* the surrounding system caches the name of a tag
PutTag ==
    /\ pc = "ready"
    /\ \E id \in TagIds :
        /\ Position(tag_name_cache, id) = 0
        /\ tag_name_cache' = LruPut(tag_name_cache, id, TagName(id))
    /\ UNCHANGED <<cfg, pc, cur, conn, newResult, namespace, input, hs, poll,
                   send, stream>>

\* Timeline: the public timeline and the timeline of a hashtag
Public == [kind |-> "public", tag |-> 0]
Hashtag(id) == [kind |-> "hashtag", tag |-> id]

\* Timeline::tag(): the id of the hashtag, 0 for None
Tag(tl) == tl.tag

\* Timeline::to_redis_raw_timeline(hashtag): the wire name, None for Err
ToRedisRawTimeline(tl, hashtag) ==
    IF tl.kind = "public" THEN "timeline:public"
    ELSE IF hashtag = None THEN None
    ELSE "timeline:hashtag:" \o hashtag

\* RedisCmd::into_sendable(&timelines): the primary and the secondary command
IntoSendable(cmd, names) ==
    [primary |-> <<cmd, names>>, secondary |-> <<"companion", cmd, names>>]

\* the calls of send_cmd: the commands and the descriptor lists
Cmds == {"subscribe", "unsubscribe"}
TimelineLists ==
    { <<Public>>, <<Public, Hashtag(2)>>, <<Hashtag(1), Hashtag(2)>> }

----------------------------------------------------------------------------
(* RedisConn::send_cmd *)

\* the closure of send_cmd on one descriptor: the hashtag it looks up and the
\* name it makes, None for Err
HashtagOf(cache, tl) == IF Tag(tl) = 0 THEN None ELSE LruGet(cache, Tag(tl))

ChannelName(ns, cache, tl) ==
    LET raw == ToRedisRawTimeline(tl, HashtagOf(cache, tl))
    IN  IF raw = None THEN None
        ELSE IF ns # None THEN ns \o ":" \o raw
        ELSE raw

\* a collect that leaves out the descriptors that do not resolve
RECURSIVE CollectSkipping(_, _, _, _)
CollectSkipping(ns, cache, tls, acc) ==
    IF tls = <<>> THEN [names |-> acc, cache |-> cache, ok |-> TRUE]
    ELSE LET tl == Head(tls)
             touched == IF Tag(tl) = 0 THEN cache ELSE LruTouch(cache, Tag(tl))
             name == ChannelName(ns, cache, tl)
         IN  IF name = None
             THEN CollectSkipping(ns, touched, Tail(tls), acc)
             ELSE CollectSkipping(ns, touched, Tail(tls), Append(acc, name))

\* a closure that caches a name for the tag it misses
RECURSIVE CollectInserting(_, _, _, _)
CollectInserting(ns, cache, tls, acc) ==
    IF tls = <<>> THEN [names |-> acc, cache |-> cache, ok |-> TRUE]
    ELSE LET tl == Head(tls)
             touched == IF Tag(tl) = 0 THEN cache
                        ELSE IF Position(cache, Tag(tl)) = 0
                        THEN LruPut(cache, Tag(tl), TagName(Tag(tl)))
                        ELSE LruTouch(cache, Tag(tl))
             name == ChannelName(ns, cache, tl)
         IN  IF name = None
             THEN [names |-> acc, cache |-> touched, ok |-> FALSE]
             ELSE CollectInserting(ns, touched, Tail(tls), Append(acc, name))

\* timelines.iter().map(...).collect(): the names of the first k descriptors,
\* where collect stops at the first Err
RECURSIVE Collect(_, _, _, _)
Collect(ns, cache, tls, acc) ==
    IF tls = <<>> THEN [names |-> acc, cache |-> cache, ok |-> TRUE]
    ELSE LET tl == Head(tls)
             touched == IF Tag(tl) = 0 THEN cache ELSE LruTouch(cache, Tag(tl))
             name == ChannelName(ns, cache, tl)
         IN  IF name = None
             THEN [names |-> acc, cache |-> touched, ok |-> FALSE]
             ELSE Collect(ns, touched, Tail(tls), Append(acc, name))

\* two write_all calls of which the second is made whatever became of the first
WriteBothAnyway(wrote1, wrote2) ==
    [primary |-> IF wrote1 THEN "written" ELSE "failed",
     secondary |-> IF wrote2 THEN "written" ELSE "failed",
     result |-> IF wrote1 /\ wrote2 THEN "Ok" ELSE "Err",
     err |-> IF wrote1 /\ wrote2 THEN NoErr ELSE FromIoError]

\* the two write_all calls of send_cmd, given which of them succeed: what
\* became of each command and the result of the call
WriteBoth(wrote1, wrote2) ==
    IF ~wrote1
    THEN [primary |-> "failed", secondary |-> None, result |-> "Err", err |-> FromIoError]
    ELSE IF ~wrote2
    THEN [primary |-> "written", secondary |-> "failed", result |-> "Err",
          err |-> FromIoError]
    ELSE [primary |-> "written", secondary |-> "written", result |-> "Ok",
          err |-> NoErr]

\* the stream after write_all(cmd), when it was attempted and succeeded
Written(c, outcome, cmd) ==
    IF outcome = "written" THEN [c EXCEPT !.sent = Append(@, cmd)] ELSE c

\* what send_cmd leaves in self.namespace: it takes the namespace
NamespaceAfterSend(ns) == None

\* send_cmd(cmd, timelines)
SendCmd ==
    /\ pc = "ready"
    /\ send.calls < MaxSends
    /\ \E cmd \in Cmds, timelines \in TimelineLists,
          wrote1 \in BOOLEAN, wrote2 \in BOOLEAN :
        LET ns == namespace
            got == Collect(ns, tag_name_cache, timelines, <<>>)
            cmds == IntoSendable(cmd, got.names)
            w == WriteBoth(wrote1, wrote2)
            called == [NoSend EXCEPT !.calls = send.calls + 1, !.cmd = cmd,
                                     !.timelines = timelines, !.ns_before = ns,
                                     !.resolved = Len(got.names)]
        IN  /\ namespace' = NamespaceAfterSend(ns)
            /\ tag_name_cache' = got.cache
            /\ IF ~got.ok
               THEN /\ send' = [called EXCEPT !.result = "Err",
                                              !.err = Err("TimelineErr", None)]
                    /\ UNCHANGED conn
               ELSE /\ send' = [called EXCEPT !.encoded = TRUE, !.names = got.names,
                                   !.primary = w.primary, !.secondary = w.secondary,
                                   !.result = w.result, !.err = w.err]
                    /\ conn' = [conn EXCEPT
                         !["primary"] = Written(@, w.primary, cmds.primary),
                         !["secondary"] = Written(@, w.secondary, cmds.secondary)]
    /\ UNCHANGED <<cfg, pc, cur, newResult, input, hs, poll, stream>>

NextSend == New \/ PutTag \/ SendCmd

\* the managers that send: configured with a password and a namespace (a
\* manager without namespace sends as one whose namespace was taken)
InitSend == Init /\ cfg.password # None /\ cfg.namespace # None
SpecSend == InitSend /\ [][NextSend]_vars

Next == New \/ Publish \/ PeerClose \/ PollRedis \/ PutTag \/ SendCmd

Spec == Init /\ [][Next]_vars

----------------------------------------------------------------------------
(* The claims *)

PollActed == poll.result.kind # None
SendActed == send.calls > 0
Last(s) == s[Len(s)]

\* C1: after any sequence of send_cmd calls, Ok or Err, the namespace field of
\* the manager equals the namespace it was constructed with
C1_NamespaceKept ==
    pc = "ready" => namespace = cfg.namespace

\* C2, as stated: whenever len(input) - offset < BLOCK at a call of poll_redis,
\* the call doubles len(input) and then len(input) - offset >= BLOCK
C2_DoublingAlwaysSuffices ==
    (PollActed /\ poll.len_before - poll.start < BLOCK) =>
        /\ Len(input) = 2 * poll.len_before
        /\ Len(input) - poll.start >= BLOCK

\* C2, amended: whenever len(input) - offset < BLOCK and offset + BLOCK is at
\* most twice len(input) at a call of poll_redis, the call doubles len(input)
\* once, before its read, and then len(input) - offset >= BLOCK: the window
\* of the read lies inside the buffer
C2_DoublingSufficesWithinTwice ==
    (PollActed /\ poll.len_before - poll.start < BLOCK
            /\ poll.start + BLOCK <= 2 * poll.len_before) =>
        /\ poll.grew
        /\ Len(input) = 2 * poll.len_before
        /\ Len(input) - poll.start >= BLOCK
        /\ poll.result # Panicked
        /\ poll.reads = 1

C2_Witness ==
    /\ PollActed
    /\ poll.len_before - poll.start < BLOCK
    /\ poll.start > poll.len_before - BLOCK
    /\ poll.grew
    /\ poll.reads = 1
    /\ poll.result.some

\* C3: poll_redis maps the outcome of its one read to one result: 0 bytes to
\* Ready(None), n > 0 bytes to Ready(Some(n)), would-block to NotReady, any
\* other failure to Ready(None); it returns no error, reports NotReady only
\* for would-block and 0 bytes only for a stream the peer closed
C3_ReadOutcomeMapped ==
    (PollActed /\ poll.result # Panicked) =>
        /\ poll.reads = 1
        /\ poll.outcome \in {"Ok", "WouldBlock", "Other"}
        /\ (poll.outcome = "Ok" /\ poll.n = 0) => poll.result = ReadyNone
        /\ (poll.outcome = "Ok" /\ poll.n > 0) =>
              poll.result = [kind |-> "Ready", some |-> TRUE, n |-> poll.n]
        /\ poll.outcome = "WouldBlock" => poll.result = NotReady
        /\ poll.outcome = "Other" => poll.result = ReadyNone
        /\ poll.result.kind \in {"Ready", "NotReady"}
        /\ poll.result = NotReady => poll.outcome = "WouldBlock"
        /\ (poll.outcome = "Ok" /\ poll.n = 0) => (poll.eof /\ poll.avail = 0)
        /\ poll.outcome = "WouldBlock" => (~poll.eof /\ poll.avail = 0)

C3_Witness ==
    /\ PollActed
    /\ poll.outcome = "WouldBlock"
    /\ poll.result = NotReady
    /\ stream.sum > 0

\* C4: the primary connection of every constructed manager is non-blocking,
\* a poll_redis call makes at most one read and never waits, and with no byte
\* pending and the stream open it returns NotReady
C4_PollNeverBlocks ==
    /\ newResult.status = "Ok" => conn["primary"].nonblocking
    /\ PollActed => (poll.reads <= 1 /\ ~poll.blocked)
    /\ (PollActed /\ poll.reads = 1 /\ poll.avail = 0 /\ ~poll.eof
            /\ poll.outcome # "Other") => poll.result = NotReady

C4_Witness ==
    /\ newResult.status = "Ok"
    /\ PollActed
    /\ poll.reads = 1
    /\ poll.avail = 0
    /\ ~poll.eof
    /\ stream.published = 0
    /\ poll.result = NotReady

\* C5: while every poll_redis call starts at the sum of the counts reported
\* so far, input[0 .. sum) is the bytes read from the stream, in the order the
\* backend sent them, with no gap and no duplicate, and the counts sum to the
\* number of bytes read
C5_BytesInArrivalOrder ==
    (pc = "ready" /\ stream.in_order) =>
        /\ stream.sum = Len(stream.consumed)
        /\ stream.sum <= Len(input)
        /\ SubSeq(input, 1, stream.sum) = stream.consumed
        /\ stream.consumed \o conn["primary"].rx = [k \in 1..stream.published |-> k]

C5_Witness ==
    /\ pc = "ready"
    /\ stream.in_order
    /\ stream.sum = MaxBytes
    /\ poll.start > 0
    /\ poll.result.some
    /\ poll.result.n < stream.sum

\* C6: send_cmd writes the primary command to the primary connection and then
\* the secondary command to the secondary connection; a failed write ends the
\* call with an I/O error; it returns Ok only if both were written, and it
\* does not write to the secondary connection after a failed primary write
C6_Mirrored ==
    SendActed =>
        /\ send.result = "Ok" <=> (send.primary = "written" /\ send.secondary = "written")
        /\ send.primary = "failed" =>
              (send.secondary = None /\ send.result = "Err" /\ send.err.kind = "IoError")
        /\ send.secondary = "failed" =>
              (send.result = "Err" /\ send.err.kind = "IoError")
        /\ send.secondary = "written" => send.primary = "written"
        /\ send.primary = "written" =>
              Last(conn["primary"].sent) = <<send.cmd, send.names>>
        /\ send.secondary = "written" =>
              Last(conn["secondary"].sent) = <<"companion", send.cmd, send.names>>
        /\ Len(conn["secondary"].sent) <= Len(conn["primary"].sent)

C6_Witness ==
    /\ SendActed
    /\ send.calls = 2
    /\ send.result = "Ok"
    /\ Len(send.names) = 2
    /\ Len(conn["primary"].sent) > Len(conn["secondary"].sent)

\* the wire name of a descriptor whose tag, if it has one, is cached
WireName(tl) ==
    IF tl.kind = "public" THEN "timeline:public"
    ELSE "timeline:hashtag:" \o TagName(tl.tag)

\* C7: in every send_cmd call, the first and the later ones, each name handed
\* to the encoder is the wire name of the descriptor, prefixed with "ns:" on a
\* manager constructed with the namespace ns and unprefixed on one without
C7_NamesPrefixed ==
    (SendActed /\ send.encoded) =>
        \A k \in 1..Len(send.names) :
            send.names[k] =
                IF cfg.namespace # None
                THEN cfg.namespace \o ":" \o WireName(send.timelines[k])
                ELSE WireName(send.timelines[k])

\* C8: RedisConn::new returns a manager only if both connections went through
\* the handshake, and when it returns an error no connection it opened is
\* left open
C8_HandshakeErrorAborts ==
    /\ newResult.status = "Ok" <=> pc = "ready"
    /\ newResult.status = "Ok" =>
          \A c \in Conns :
              /\ conn[c].open
              /\ conn[c].sent # <<>>
              /\ Last(conn[c].sent) = SetNameCmd
    /\ newResult.status = "Err" <=> pc = "failed"
    /\ newResult.status = "Err" => \A c \in Conns : ~conn[c].open

C8_Witness ==
    /\ newResult.status = "Err"
    /\ cur = "secondary"
    /\ newResult.err.kind = "IncorrectPassword"
    /\ Len(conn["primary"].sent) = 3
    /\ conn["primary"].nonblocking

\* C9: the reply to PING is classified by its leading bytes: "+PONG\r\n" lets
\* the handshake go on, "-NOAUTH" gives MissingPassword, "HTTP/1." gives
\* NotRedis with the address, anything else InvalidRedisReply with the text
C9_PingReplyClassified ==
    hs.step = "ping" =>
        LET reply == FromUtf8Lossy(hs.buffer)
            kind == newResult.err.kind
        IN  /\ Len(hs.buffer) = ReplyBufLen
            /\ StartsWith(reply, PONG) =>
                  kind \notin {"MissingPassword", "NotRedis", "InvalidRedisReply"}
            /\ StartsWith(reply, NOAUTH) =>
                  (newResult.status = "Err" /\ kind = "MissingPassword")
            /\ StartsWith(reply, HTTP1) =>
                  (newResult.status = "Err" /\ kind = "NotRedis"
                      /\ newResult.err.data = Addr)
            /\ (~StartsWith(reply, PONG) /\ ~StartsWith(reply, NOAUTH)
                    /\ ~StartsWith(reply, HTTP1)) =>
                  (newResult.status = "Err" /\ kind = "InvalidRedisReply"
                      /\ newResult.err.data = reply)

C9_Witness ==
    /\ hs.step = "ping"
    /\ StartsWith(FromUtf8Lossy(hs.buffer), HTTP1 \o <<48>>)
    /\ newResult.err.kind = "NotRedis"

\* C10: with a password AUTH is the first command on a connection and five
\* bytes of reply are read; if they are not "+OK\r\n" the handshake fails with
\* IncorrectPassword carrying the password and PING is not sent; without a
\* password no AUTH is sent and PING comes first
C10_AuthStep ==
    /\ \A c \in Conns :
          LET sent == conn[c].sent
          IN  IF cfg.password = None
              THEN /\ \A k \in 1..Len(sent) : Head(sent[k]) # "auth"
                   /\ sent # <<>> => sent[1] = PingCmd
              ELSE /\ sent # <<>> => sent[1] = <<"auth", cfg.password>>
                   /\ \A k \in 2..Len(sent) : Head(sent[k]) # "auth"
    /\ hs.step = "auth" =>
          /\ hs.consumed = 5
          /\ Len(hs.buffer) = 5
          /\ hs.buffer # OK =>
                /\ newResult.status = "Err"
                /\ newResult.err.kind = "IncorrectPassword"
                /\ newResult.err.data = cfg.password
                /\ \A k \in 1..Len(conn[cur].sent) : conn[cur].sent[k] # PingCmd
          /\ hs.buffer = OK => newResult.err.kind # "IncorrectPassword"

C10_Witness ==
    /\ hs.step = "auth"
    /\ hs.buffer # OK
    /\ SubSeq(hs.buffer, 1, 3) = SubSeq(OK, 1, 3)
    /\ newResult.err.kind = "IncorrectPassword"
    /\ conn[cur].sent = <<<<"auth", cfg.password>>>>

\* C11: when opening a connection fails, RedisConn::new fails with the error
\* that carries the address, not with the generic I/O error
C11_ConnectFailureCarriesAddr ==
    (newResult.status = "Err" /\ newResult.at = "connect") =>
        /\ newResult.err.kind = "ConnectionErr"
        /\ newResult.err.data = Addr

\* the commands of a handshake, in the order of the claim
HandshakeOrder ==
    IF cfg.password = None THEN <<PingCmd, SetNameCmd>>
    ELSE <<<<"auth", cfg.password>>, PingCmd, SetNameCmd>>

\* C13: on each connection the handshake runs AUTH (if any), PING, CLIENT
\* SETNAME in this order, the 10 ms read timeout is set only after the reply
\* to CLIENT SETNAME was read and found to be "+OK\r\n", and no handshake
\* reply is read with the timeout in effect
C13_TimeoutAfterSetName ==
    /\ \A c \in Conns :
          /\ Len(conn[c].sent) <= Len(HandshakeOrder)
          /\ conn[c].sent = SubSeq(HandshakeOrder, 1, Len(conn[c].sent))
          /\ conn[c].read_timeout =>
                (conn[c].sent # <<>> /\ Last(conn[c].sent) = SetNameCmd)
    /\ hs.step # None => ~hs.timeout

\* C19: RedisConn::new opens the secondary connection only after the primary
\* connection was opened, went through the handshake and was switched to
\* non-blocking mode; when the primary handshake or the mode switch fails the
\* secondary connection is not attempted; the secondary connection is never
\* switched to non-blocking mode
C19_OneAfterTheOther ==
    /\ cur = "primary" => conn["secondary"] = NoConn
    /\ cur = "secondary" =>
          /\ conn["primary"].sent = HandshakeOrder
          /\ conn["primary"].read_timeout
          /\ conn["primary"].nonblocking
    /\ (newResult.status = "Err"
            /\ newResult.at \in {"auth", "ping", "set_read_timeout", "set_nonblocking"}
            /\ conn["primary"].sent # HandshakeOrder) => conn["secondary"] = NoConn
    /\ newResult.at = "set_nonblocking" => conn["secondary"] = NoConn
    /\ ~conn["secondary"].nonblocking

C19_Witness ==
    /\ pc = "set_name"
    /\ cur = "secondary"
    /\ conn["secondary"].open
    /\ conn["primary"].open
    /\ conn["primary"].nonblocking
    /\ conn["secondary"].sent # <<>>

\* n is the first length of the buffer doubled some number of times
RECURSIVE IsDoubledInitLen(_)
IsDoubledInitLen(n) ==
    \/ n = InputInitLen
    \/ n > InputInitLen /\ n % 2 = 0 /\ IsDoubledInitLen(n \div 2)

\* C15: when the first offset is 0 and each later offset is at most the
\* offset before it plus the count that poll reported, the one doubling is
\* enough: after the growth check offset + BLOCK <= len(input), no poll
\* panics, and len(input) is the first length times a power of two
C15_OneDoublingSuffices ==
    /\ newResult.status = "Ok" => IsDoubledInitLen(Len(input))
    /\ stream.bounded => pc # "panicked"
    /\ (PollActed /\ stream.bounded) =>
          /\ poll.result # Panicked
          /\ poll.start + BLOCK <= Len(input)
          /\ poll.reads = 1

C15_Witness ==
    /\ PollActed
    /\ stream.bounded
    /\ poll.grew
    /\ poll.start > 0
    /\ poll.start + BLOCK > poll.len_before
    /\ Len(input) = 2 * InputInitLen

\* the number of bytes a poll result reports
Reported(result) == IF result.some THEN result.n ELSE 0

\* C16: a poll at offset start leaves input[0..start) as it was; Ready(n)
\* changes at most input[start..start + n) and n <= BLOCK; growth only
\* appends zeros and never shortens the buffer; a poll that reports no
\* bytes (NotReady or a closed stream) leaves the existing bytes as they were
C16_PollFrame ==
    [][(pc = "ready" /\ (poll' # poll \/ input' # input
                            \/ stream'.consumed # stream.consumed)) =>
          LET s == poll'.start
              n == Reported(poll'.result)
          IN  /\ Len(input') >= Len(input)
              /\ n <= BLOCK
              /\ \A k \in 1..Len(input) :
                    (k <= s \/ k > s + n) => input'[k] = input[k]
              /\ \A k \in (Len(input) + 1)..Len(input') :
                    (k <= s \/ k > s + n) => input'[k] = 0
              /\ n = 0 => SubSeq(input', 1, Len(input)) = input]_vars

C16_Witness ==
    /\ PollActed
    /\ poll.start > 0
    /\ poll.result.kind = "Ready" /\ poll.result.some
    /\ poll.grew
    /\ input[1] # 0
    /\ input[poll.start + 1] # 0

\* C17: the in-memory manager polls as the socket manager does: with the
\* same buffer, the same offset and the same pending bytes both report the
\* same result and leave the same buffer, NotReady when nothing is pending on
\* an open stream and Ready(min(pending, BLOCK)) when bytes are pending
C17_MockPollsAlike ==
    [][(/\ pc = "ready"
        /\ poll' # poll \/ input' # input \/ stream'.consumed # stream.consumed
        /\ poll'.outcome \in {"Ok", "WouldBlock"}
        /\ poll'.result # Panicked) =>
          LET pending == conn["primary"].rx
              mock == MockPollRedis(input, pending, poll'.start)
          IN  /\ mock.result = poll'.result
              /\ mock.input = input'
              /\ (pending = <<>> /\ ~poll'.eof) => mock.result = NotReady
              /\ pending # <<>> => mock.result = Ready(Min(Len(pending), BLOCK))]_vars

\* the keys and the entries of a cache, whatever their order
Keys(cache) == {cache[k].key : k \in 1..Len(cache)}
Entries(cache) == {cache[k] : k \in 1..Len(cache)}

\* a descriptor that send_cmd cannot resolve: a hashtag whose name is not cached
Unresolvable(cache, tl) == tl.kind = "hashtag" /\ tl.tag \notin Keys(cache)

\* C14: send_cmd only looks the cache up: after a call, Ok or Err, the cache
\* holds the keys and the values it held before; only the order of recency
\* may differ, and only when a key of the call was hit
C14_SendOnlyLooksUp ==
    [][send'.calls # send.calls =>
          /\ Entries(tag_name_cache') = Entries(tag_name_cache)
          /\ Len(tag_name_cache') = Len(tag_name_cache)
          /\ tag_name_cache' # tag_name_cache =>
                \E k \in 1..Len(send'.timelines) :
                    send'.timelines[k].tag \in Keys(tag_name_cache)]_vars

C14_Witness ==
    /\ SendActed
    /\ send.timelines = <<Hashtag(1), Hashtag(2)>>
    /\ send.resolved = 2
    /\ Len(tag_name_cache) = 2
    /\ tag_name_cache[1].key = 2
    /\ tag_name_cache[2] = [key |-> 1, value |-> TagName(1)]

\* C18: when a descriptor of the call does not resolve, send_cmd returns the
\* error and writes nothing to the primary or to the secondary connection,
\* also when other descriptors of the call resolved
C18_NothingWrittenOnResolveErr ==
    [][(/\ send'.calls # send.calls
        /\ \E k \in 1..Len(send'.timelines) :
              Unresolvable(tag_name_cache, send'.timelines[k])) =>
          /\ conn' = conn
          /\ send'.result = "Err"
          /\ send'.err.kind = "TimelineErr"
          /\ ~send'.encoded
          /\ send'.primary = None /\ send'.secondary = None]_vars

C18_Witness ==
    /\ SendActed
    /\ send.timelines = <<Public, Hashtag(2)>>
    /\ send.resolved = 1
    /\ send.result = "Err"
    /\ send.err.kind = "TimelineErr"
    /\ conn["primary"].sent = HandshakeOrder
    /\ conn["secondary"].sent = HandshakeOrder

\* the last descriptor a call resolved that names a hashtag, 0 when none does
LastHit(tls, resolved) ==
    IF \E k \in 1..resolved : tls[k].kind = "hashtag"
    THEN CHOOSE k \in 1..resolved :
            /\ tls[k].kind = "hashtag"
            /\ \A j \in (k + 1)..resolved : tls[j].kind # "hashtag"
    ELSE 0

\* C12: the tag name cache is a bounded LRU: it never holds more than its
\* capacity; caching a new key in a full cache evicts the least recently used
\* key and no other; a get that hits makes its key the most recently used;
\* so that of capacity + 1 keys cached the most recently used capacity stay
C12_BoundedLru ==
    [][/\ Len(tag_name_cache') <= TagCacheCap
       /\ Cardinality(Keys(tag_name_cache')) = Len(tag_name_cache')
       /\ (pc = "ready" /\ send' = send /\ tag_name_cache' # tag_name_cache) =>
             \E id \in TagIds \ Keys(tag_name_cache) :
                 /\ tag_name_cache'[1] = [key |-> id, value |-> TagName(id)]
                 /\ IF Len(tag_name_cache) = TagCacheCap
                    THEN /\ Keys(tag_name_cache') =
                               (Keys(tag_name_cache) \ {Last(tag_name_cache).key})
                                   \cup {id}
                         /\ SubSeq(tag_name_cache', 2, TagCacheCap) =
                               SubSeq(tag_name_cache, 1, TagCacheCap - 1)
                    ELSE SubSeq(tag_name_cache', 2, Len(tag_name_cache')) =
                               tag_name_cache
       /\ (send'.calls # send.calls
              /\ LastHit(send'.timelines, send'.resolved) # 0) =>
             tag_name_cache'[1].key =
                 send'.timelines[LastHit(send'.timelines, send'.resolved)].tag]_vars

C12_Witness ==
    /\ SendActed
    /\ send.timelines = <<Hashtag(1), Hashtag(2)>>
    /\ send.resolved = 2
    /\ Len(tag_name_cache) = TagCacheCap
    /\ 1 \notin Keys(tag_name_cache)
    /\ 2 \in Keys(tag_name_cache)
    /\ tag_name_cache[1].key = TagCacheCap + 1

====
